---- MODULE Spec2Model ----
(***************************************************************************)
(* A model of deploy_driver.py: the argument parsing, the auto-discovery   *)
(* preamble and deploy_driver, with the browser, the hub's pages and the   *)
(* local file as the environment.                                          *)
(*                                                                         *)
(* Environment assumptions (stated once, used everywhere):                 *)
(*  - launching a session, navigating, waiting, looking elements up,       *)
(*    running a script and clicking may each raise;                        *)
(*  - an element handed back by a lookup stays attached while its state    *)
(*    (displayed, enabled, text, attribute) is read, so these reads do not *)
(*    raise;                                                               *)
(*  - quit(), print, sleep and reading a file that exists do not raise.    *)
(***************************************************************************)
EXTENDS Integers, Sequences, FiniteSets, TLC

(***************************************************************************)
(* Python string operations, computed character by character.              *)
(***************************************************************************)
Char(s, i) == SubSeq(s, i, i)

\* Python: sub in s
Contains(s, sub) ==
  \E i \in 0..(Len(s) - Len(sub)) : SubSeq(s, i + 1, i + Len(sub)) = sub

\* Python: s.find(sub) + 1  (0 when sub does not occur)
Find(s, sub) ==
  IF Contains(s, sub)
  THEN CHOOSE i \in 1..(Len(s) - Len(sub) + 1) :
         /\ SubSeq(s, i, i + Len(sub) - 1) = sub
         /\ \A j \in 1..(i - 1) : SubSeq(s, j, j + Len(sub) - 1) # sub
  ELSE 0

\* Python: s.split(sep)[0]
Before(s, sep) == IF Contains(s, sep) THEN SubSeq(s, 1, Find(s, sep) - 1) ELSE s

\* the text after the first sep (sep occurs in s)
After(s, sep) == SubSeq(s, Find(s, sep) + Len(sep), Len(s))

\* Python: s.split(sep)[1]  (sep occurs in s)
SplitSecond(s, sep) == Before(After(s, sep), sep)

\* Python: s.isdigit(), on ASCII tokens
IsDigit(s) == Len(s) > 0 /\ \A i \in 1..Len(s) : Contains("0123456789", Char(s, i))

UpperAlpha == "ABCDEFGHIJKLMNOPQRSTUVWXYZ"
LowerAlpha == "abcdefghijklmnopqrstuvwxyz"

LowerChar(c) ==
  IF Contains(UpperAlpha, c) /\ Len(c) = 1
  THEN Char(LowerAlpha, Find(UpperAlpha, c))
  ELSE c

\* Python: s.lower(), on ASCII text
RECURSIVE Lower(_)
Lower(s) == IF s = "" THEN "" ELSE LowerChar(Char(s, 1)) \o Lower(Tail(s))

IsSpace(c) == c = " " \/ c = "\n" \/ c = "\t"

RECURSIVE LStrip(_)
LStrip(s) == IF s # "" /\ IsSpace(Char(s, 1)) THEN LStrip(Tail(s)) ELSE s

RECURSIVE RStrip(_)
RStrip(s) ==
  IF s # "" /\ IsSpace(Char(s, Len(s))) THEN RStrip(SubSeq(s, 1, Len(s) - 1)) ELSE s

\* Python: s.strip()
Strip(s) == RStrip(LStrip(s))

\* Python: s.split('\n')
RECURSIVE SplitLines(_)
SplitLines(s) ==
  IF Contains(s, "\n")
  THEN <<Before(s, "\n")>> \o SplitLines(After(s, "\n"))
  ELSE <<s>>

(***************************************************************************)
(* Configuration (lines 13-22).                                            *)
(***************************************************************************)
DRIVER_ID == "REPLACE_WITH_DRIVER_ID"
DEFAULT_HUB_IP == "192.168.2.19"
DRIVER_NAME == "Nuvo Essentia"

(***************************************************************************)
(* Bounds and input sets.                                                  *)
(***************************************************************************)
MaxArgs == 3
MaxButtons == 2
MaxLines == 2
MaxBanners == 1

\* all sequences over S of length at most n
SeqsUpTo(S, n) == UNION {[1..k -> S] : k \in 0..n}

\* command-line tokens
Tokens == {"42", "7", "192.168.1.5", "10.0.0.2", "abc", ""}

\* command lines of a whole run
RunArgvs == {<<>>, <<"42">>, <<"192.168.1.5">>, <<"7", "10.0.0.2">>, <<"abc", "1.5", "9">>}

\* hyperlinks the listing page may show: visible text, target
LinkA == [text |-> "Nuvo Essentia", hasHref |-> TRUE,
          href |-> "http://192.168.2.19/driver/editor/123?foo=bar"]
LinkB == [text |-> "nuvo essentia (user)", hasHref |-> TRUE,
          href |-> "http://192.168.2.19/driver/editor/77/edit"]
LinkC == [text |-> "Nuvo Essentia", hasHref |-> TRUE,
          href |-> "http://192.168.2.19/driver/show/5"]
LinkD == [text |-> "Nuvo Essentia", hasHref |-> FALSE, href |-> ""]
LinkE == [text |-> "Other Driver", hasHref |-> TRUE,
          href |-> "http://192.168.2.19/driver/editor/9"]

Listings == {<<>>, <<LinkE>>, <<LinkE, LinkA>>, <<LinkB, LinkA>>, <<LinkE, LinkB>>,
             <<LinkC>>, <<LinkD>>}

(***************************************************************************)
(* State.                                                                  *)
(***************************************************************************)
VARIABLES
  pc,            \* position in the script
  argv,          \* sys.argv[1:]
  driver_id, hub_ip, HUB_IP,
  fileExists,    \* whether CODE_FILENAME exists beside the script
  session,       \* per browser session: "none", "open" or "closed"
  quits,         \* per browser session: how often quit() was called on it
  visited,       \* the URLs passed to driver.get, in order
  listing,       \* the hyperlinks of the listing page
  link,          \* discovery: index in listing of the link found, 0 for None
  discOutcome,   \* discovery: which diagnostic was printed
  exitStatus,    \* process exit status, -1 while running
  result,        \* what deploy_driver returned: "none", "True", "False"
  dep            \* deploy_driver's locals and what it did to the page

mainVars == <<argv, driver_id, hub_ip, HUB_IP, fileExists, exitStatus>>
discVars == <<listing, link, discOutcome>>
vars == <<pc, mainVars, discVars, session, quits, visited, result, dep>>

\* deploy_driver's locals before it runs
DepInit ==
  [editorFound |-> FALSE,    \* the wait of line 80 returned
   buffer |-> "original",    \* the editor buffer: "original" or "driver_code"
   injectOk |-> FALSE,       \* result.get('success') of line 119
   searched |-> FALSE,       \* the selector loop of line 139 ran
   page |-> <<>>,            \* the buttons and inputs of the page, in document order
   findRaised |-> {},        \* the selectors whose find_elements raised
   save_btn |-> 0,           \* index in page of the accepted control, 0 for None
   found_using |-> 0,        \* index in selectors of the xpath that found it
   scrolled |-> FALSE,       \* the scrollIntoView script of line 156 returned
   nativeClicks |-> 0,       \* calls of save_btn.click()
   scriptClicks |-> 0,       \* calls of the scripted click of line 163
   nativeThrew |-> FALSE,
   scriptThrew |-> FALSE,
   clicked |-> FALSE,        \* a click returned without raising
   verified |-> FALSE,       \* the error check of lines 183-215 ran
   banners |-> <<>>,         \* the .alert-warning elements of the page after the save
   body |-> "",              \* the visible text of the page after the save
   bannerRaised |-> FALSE,
   bodyRaised |-> FALSE,
   errors_found |-> <<>>,
   caught |-> "none"]        \* the handler reached: "save" (line 179), "global" (line 217)

InitCommon ==
  /\ pc = "start"
  /\ driver_id = DRIVER_ID
  /\ hub_ip = DEFAULT_HUB_IP
  /\ HUB_IP = DEFAULT_HUB_IP
  /\ session = [disc |-> "none", dep |-> "none"]
  /\ quits = [disc |-> 0, dep |-> 0]
  /\ visited = <<>>
  /\ listing = <<>>
  /\ link = 0
  /\ discOutcome = "none"
  /\ exitStatus = -1
  /\ result = "none"
  /\ dep = DepInit

Init ==
  /\ InitCommon
  /\ argv \in RunArgvs
  /\ fileExists \in BOOLEAN

(***************************************************************************)
(* Argument parsing (lines 224-244).                                       *)
(***************************************************************************)
\* one "if isdigit / elif '.' in" block applied to token tok
Classify(tok, cfg) ==
  IF IsDigit(tok) THEN [cfg EXCEPT !.driver_id = tok]
  ELSE IF Contains(tok, ".") THEN [cfg EXCEPT !.hub_ip = tok]
  ELSE cfg

\* a parser that also consults a third argument
ParsedConfig_AllArgs(args) ==
  LET c0 == [driver_id |-> DRIVER_ID, hub_ip |-> DEFAULT_HUB_IP]
      c1 == IF Len(args) > 0 THEN Classify(args[1], c0) ELSE c0
      c2 == IF Len(args) > 1 THEN Classify(args[2], c1) ELSE c1
      c3 == IF Len(args) > 2 THEN Classify(args[3], c2) ELSE c2
  IN  c3

ParsedConfig(args) ==
  LET c0 == [driver_id |-> DRIVER_ID, hub_ip |-> DEFAULT_HUB_IP]
      c1 == IF Len(args) > 0 THEN Classify(args[1], c0) ELSE c0
      c2 == IF Len(args) > 1 THEN Classify(args[2], c1) ELSE c1
  IN  c2

ParseArgs ==
  /\ pc = "start"
  /\ driver_id' = ParsedConfig(argv).driver_id
  /\ hub_ip' = ParsedConfig(argv).hub_ip
  /\ HUB_IP' = IF ParsedConfig(argv).hub_ip # HUB_IP THEN ParsedConfig(argv).hub_ip ELSE HUB_IP
  /\ pc' = "discover"
  /\ UNCHANGED <<argv, fileExists, exitStatus, discVars, session, quits, visited, result, dep>>

(***************************************************************************)
(* Auto-discovery (lines 246-295).                                         *)
(***************************************************************************)
list_url == "http://" \o HUB_IP \o "/driver/list"

\* line 247: discovery is skipped when the identifier is configured
DiscSkip ==
  /\ pc = "discover"
  /\ driver_id # DRIVER_ID
  /\ pc' = "check"
  /\ UNCHANGED <<mainVars, discVars, session, quits, visited, result, dep>>

\* lines 292-295: the handler of the discovery block; nothing is released here
DiscRaised ==
  /\ discOutcome' = "raised"
  /\ pc' = "check"

\* line 250
DiscLaunch ==
  /\ pc = "discover"
  /\ driver_id = DRIVER_ID
  /\ \E ok \in BOOLEAN :
       IF ok
       THEN /\ session' = [session EXCEPT !.disc = "open"]
            /\ pc' = "disc_get"
            /\ UNCHANGED discOutcome
       ELSE /\ DiscRaised
            /\ UNCHANGED session
  /\ UNCHANGED <<mainVars, listing, link, quits, visited, result, dep>>

\* lines 252-257
DiscGet ==
  /\ pc = "disc_get"
  /\ \E ok \in BOOLEAN, page \in Listings :
       IF ok
       THEN /\ visited' = Append(visited, list_url)
            /\ listing' = page
            /\ pc' = "disc_find"
            /\ UNCHANGED discOutcome
       ELSE /\ DiscRaised
            /\ UNCHANGED <<visited, listing>>
  /\ UNCHANGED <<mainVars, link, session, quits, result, dep>>

\* By.PARTIAL_LINK_TEXT: the first link whose text contains DRIVER_NAME, 0 if none
PartialLinkText(links) ==
  IF \E i \in 1..Len(links) : Contains(links[i].text, DRIVER_NAME)
  THEN CHOOSE i \in 1..Len(links) :
         /\ Contains(links[i].text, DRIVER_NAME)
         /\ \A j \in 1..(i - 1) : ~Contains(links[j].text, DRIVER_NAME)
  ELSE 0

\* lines 268-272: linear scan, case-insensitive
RECURSIVE ScanLinks(_, _)
ScanLinks(links, i) ==
  IF i > Len(links) THEN 0
  ELSE IF Contains(Lower(links[i].text), Lower(DRIVER_NAME)) THEN i
  ELSE ScanLinks(links, i + 1)

\* lines 260-274: the wait returns only if a link matches; it may time out even
\* then (a slow page), and it or find_element may raise something else
DiscFind ==
  /\ pc = "disc_find"
  /\ \E waited \in {"found", "timeout", "raise"}, scanRaises \in BOOLEAN :
       CASE waited = "found" ->
              /\ PartialLinkText(listing) # 0
              /\ ~scanRaises
              /\ link' = PartialLinkText(listing)
              /\ pc' = "disc_link"
              /\ UNCHANGED discOutcome
         [] waited = "raise" ->
              /\ ~scanRaises
              /\ DiscRaised
              /\ UNCHANGED link
         [] waited = "timeout" ->
              \* a raise of find_elements is swallowed (line 273)
              /\ link' = IF scanRaises THEN 0 ELSE ScanLinks(listing, 1)
              /\ pc' = "disc_link"
              /\ UNCHANGED discOutcome
  /\ UNCHANGED <<mainVars, listing, session, quits, visited, result, dep>>

\* line 279
ExtractId(href) == Before(Before(SplitSecond(href, "editor/"), "/"), "?")

\* lines 276-289
DiscLink ==
  /\ pc = "disc_link"
  /\ \E raises \in BOOLEAN :
       IF link # 0
       THEN IF raises
            THEN DiscRaised /\ UNCHANGED driver_id
            ELSE LET l == listing[link] IN
                 /\ IF l.hasHref /\ l.href # "" /\ Contains(l.href, "editor/")
                    THEN /\ driver_id' = ExtractId(l.href)
                         /\ discOutcome' = "found"
                    ELSE /\ discOutcome' = "badhref"
                         /\ UNCHANGED driver_id
                 /\ pc' = "disc_quit"
       ELSE /\ discOutcome' = "nolink"
            /\ pc' = "disc_quit"
            /\ UNCHANGED driver_id
  /\ UNCHANGED <<argv, hub_ip, HUB_IP, fileExists, exitStatus, listing, link,
                 session, quits, visited, result, dep>>

\* a discovery that forgets to quit its session
DiscQuit_NoRelease ==
  /\ pc = "disc_quit"
  /\ pc' = "check"
  /\ UNCHANGED <<mainVars, discVars, session, quits, visited, result, dep>>

\* line 291
DiscQuit ==
  /\ pc = "disc_quit"
  /\ session' = [session EXCEPT !.disc = "closed"]
  /\ quits' = [quits EXCEPT !.disc = @ + 1]
  /\ pc' = "check"
  /\ UNCHANGED <<mainVars, discVars, visited, result, dep>>

\* a check that reports the failure and goes on without sys.exit(1)
Check_NoExit ==
  /\ pc = "check"
  /\ pc' = "dep_file"
  /\ UNCHANGED <<mainVars, discVars, session, quits, visited, result, dep>>

\* lines 297-309
Check ==
  /\ pc = "check"
  /\ IF driver_id = DRIVER_ID
     THEN /\ exitStatus' = 1
          /\ pc' = "exited"
     ELSE /\ pc' = "dep_file"
          /\ UNCHANGED exitStatus
  /\ UNCHANGED <<argv, driver_id, hub_ip, HUB_IP, fileExists, discVars, session,
                 quits, visited, result, dep>>

(***************************************************************************)
(* deploy_driver (lines 40-221).                                           *)
(***************************************************************************)
driver_url == "http://" \o hub_ip \o "/driver/editor/" \o driver_id

\* a return inside the outer try: the value is set, the finally clause follows
ReturnInTry(value, handler) ==
  /\ result' = value
  /\ dep' = [dep EXCEPT !.caught = handler]
  /\ pc' = "dep_finally"

\* lines 44-55
DepFile ==
  /\ pc = "dep_file"
  /\ IF fileExists
     THEN pc' = "dep_launch" /\ UNCHANGED result
     ELSE pc' = "returned" /\ result' = "False"
  /\ UNCHANGED <<mainVars, discVars, session, quits, visited, dep>>

\* lines 57-62
DepLaunch ==
  /\ pc = "dep_launch"
  /\ \E ok \in BOOLEAN :
       IF ok
       THEN /\ session' = [session EXCEPT !.dep = "open"]
            /\ pc' = "dep_get"
            /\ UNCHANGED result
       ELSE /\ result' = "False"
            /\ pc' = "returned"
            /\ UNCHANGED session
  /\ UNCHANGED <<mainVars, discVars, quits, visited, dep>>

\* lines 65-66
DepGet ==
  /\ pc = "dep_get"
  /\ \E ok \in BOOLEAN :
       IF ok
       THEN /\ visited' = Append(visited, driver_url)
            /\ pc' = "dep_login"
            /\ UNCHANGED <<result, dep>>
       ELSE /\ ReturnInTry("False", "global")
            /\ UNCHANGED visited
  /\ UNCHANGED <<mainVars, discVars, session, quits>>

\* lines 68-75: whatever the lookup gives, or if it raises, the run goes on
DepLogin ==
  /\ pc = "dep_login"
  /\ \E outcome \in {"absent", "present", "raise"} : pc' = "dep_wait"
  /\ UNCHANGED <<mainVars, discVars, session, quits, visited, result, dep>>

\* a wait whose timeout is reported without the return of line 85
DepWait_IgnoreTimeout ==
  /\ pc = "dep_wait"
  /\ \E outcome \in {"found", "timeout", "raise"} :
       CASE outcome = "found" ->
              /\ dep' = [dep EXCEPT !.editorFound = TRUE]
              /\ pc' = "dep_inject"
              /\ UNCHANGED result
         [] outcome = "timeout" ->
              /\ pc' = "dep_inject"
              /\ UNCHANGED <<result, dep>>
         [] outcome = "raise" -> ReturnInTry("False", "global")
  /\ UNCHANGED <<mainVars, discVars, session, quits, visited>>

\* lines 77-85
DepWait ==
  /\ pc = "dep_wait"
  /\ \E outcome \in {"found", "timeout", "raise"} :
       CASE outcome = "found" ->
              /\ dep' = [dep EXCEPT !.editorFound = TRUE]
              /\ pc' = "dep_inject"
              /\ UNCHANGED result
         [] outcome = "timeout" -> ReturnInTry("False", "none")
         [] outcome = "raise" -> ReturnInTry("False", "global")
  /\ UNCHANGED <<mainVars, discVars, session, quits, visited>>

\* lines 88-123: the script returns {success: true} after cm.setValue, returns a
\* failure before it, or throws before or after it
DepInject ==
  /\ pc = "dep_inject"
  /\ \E outcome \in {"success", "failure", "raise", "raise_after_set"} :
       CASE outcome = "success" ->
              /\ dep' = [dep EXCEPT !.buffer = "driver_code", !.injectOk = TRUE]
              /\ pc' = "dep_find"
              /\ UNCHANGED result
         [] outcome = "failure" -> ReturnInTry("False", "none")
         [] outcome = "raise" -> ReturnInTry("False", "global")
         [] outcome = "raise_after_set" ->
              /\ result' = "False"
              /\ dep' = [dep EXCEPT !.buffer = "driver_code", !.caught = "global"]
              /\ pc' = "dep_finally"
  /\ UNCHANGED <<mainVars, discVars, session, quits, visited>>

(***************************************************************************)
(* The save control (lines 125-181).                                       *)
(***************************************************************************)
Button(text, class, type, visible, enabled) ==
  [tag |-> "button", text |-> text, class |-> class, type |-> type, value |-> "",
   visible |-> visible, enabled |-> enabled]

SaveBtn == Button("Save", "btn bg-hubitat-primary-green", "button", TRUE, TRUE)
CancelBtn == Button("Cancel", "btn btn-primary", "button", TRUE, TRUE)
DeleteBtn == Button("Delete Driver", "btn btn-primary", "submit", TRUE, TRUE)
DiscardBtn == Button("CANCEL unsaved", "btn", "button", TRUE, TRUE)
HiddenSave == Button("Save", "btn", "button", FALSE, TRUE)
DisabledSave == Button("SAVE", "btn btn-primary", "submit", TRUE, FALSE)
UpdateBtn == Button("Update", "btn", "submit", TRUE, TRUE)
SaveInput == [tag |-> "input", text |-> "", class |-> "", type |-> "submit",
              value |-> "Save", visible |-> TRUE, enabled |-> TRUE]

Elements == {SaveBtn, CancelBtn, DeleteBtn, DiscardBtn, HiddenSave, DisabledSave,
             UpdateBtn, SaveInput}

\* the pages and lookup failures of the save step: all of them, and those of a whole run
AllPages == SeqsUpTo(Elements, MaxButtons)
AllRaises == SUBSET (1..5)
RunPages == {<<>>, <<SaveBtn>>, <<CancelBtn, UpdateBtn>>}
RunRaises == {{}, {1}, 1..5}

\* XPath translate(., 'SAVE', 'save')
TranslateChar(c) ==
  IF c = "S" THEN "s" ELSE IF c = "A" THEN "a" ELSE IF c = "V" THEN "v"
  ELSE IF c = "E" THEN "e" ELSE c

RECURSIVE Translate(_)
Translate(s) == IF s = "" THEN "" ELSE TranslateChar(Char(s, 1)) \o Translate(Tail(s))

\* lines 130-137: whether element e matches the x-th xpath
selectors(x, e) ==
  CASE x = 1 -> e.tag = "button" /\ Contains(Translate(e.text), "save")
    [] x = 2 -> e.tag = "button" /\ Contains(e.class, "bg-hubitat-primary-green")
    [] x = 3 -> e.tag = "button" /\ Contains(e.class, "btn-primary")
    [] x = 4 -> e.tag = "button" /\ e.type = "submit"
    [] x = 5 -> e.tag = "input" /\ e.value = "Save"

NumSelectors == 5

\* line 141: the indices of the page's elements matching the x-th xpath, in document order
RECURSIVE find_elements(_, _, _)
find_elements(page, x, i) ==
  IF i > Len(page) THEN <<>>
  ELSE (IF selectors(x, page[i]) THEN <<i>> ELSE <<>>) \o find_elements(page, x, i + 1)

\* lines 146-147
NegativeLabel(txt) == Contains(txt, "delete") \/ Contains(txt, "cancel")

\* an inner loop that leaves on a negative label (break for continue)
RECURSIVE FirstAccepted_BreakOnNegative(_, _, _)
FirstAccepted_BreakOnNegative(page, btns, j) ==
  IF j > Len(btns) THEN 0
  ELSE LET btn == page[btns[j]] IN
       IF btn.visible /\ btn.enabled
       THEN IF NegativeLabel(Lower(btn.text)) THEN 0 ELSE btns[j]
       ELSE FirstAccepted_BreakOnNegative(page, btns, j + 1)

\* lines 142-150: the first acceptable element among btns[j..], 0 if none

RECURSIVE FirstAccepted(_, _, _)
FirstAccepted(page, btns, j) ==
  IF j > Len(btns) THEN 0
  ELSE LET btn == page[btns[j]] IN
       IF btn.visible /\ btn.enabled
       THEN IF NegativeLabel(Lower(btn.text))
            THEN FirstAccepted(page, btns, j + 1)
            ELSE btns[j]
       ELSE FirstAccepted(page, btns, j + 1)

\* lines 139-152: the selector loop from the x-th xpath on; a raising lookup is skipped
RECURSIVE SelectSave(_, _, _)
SelectSave(page, raised, x) ==
  IF x > NumSelectors THEN [save_btn |-> 0, xpath |-> 0]
  ELSE IF x \in raised THEN SelectSave(page, raised, x + 1)
  ELSE LET btn == FirstAccepted(page, find_elements(page, x, 1), 1) IN
       IF btn # 0 THEN [save_btn |-> btn, xpath |-> x]
       ELSE SelectSave(page, raised, x + 1)

\* lines 126-154
DepFindSave(Pages, Raises) ==
  /\ pc = "dep_find"
  /\ \E page \in Pages, raised \in Raises :
       LET sel == SelectSave(page, raised, 1) IN
       /\ dep' = [dep EXCEPT !.searched = TRUE, !.page = page, !.findRaised = raised,
                             !.save_btn = sel.save_btn, !.found_using = sel.xpath]
       /\ pc' = IF sel.save_btn # 0 THEN "dep_scroll" ELSE "dep_dump"
  /\ UNCHANGED <<mainVars, discVars, session, quits, visited, result>>

\* lines 155-158
DepScroll ==
  /\ pc = "dep_scroll"
  /\ \E ok \in BOOLEAN :
       IF ok
       THEN /\ dep' = [dep EXCEPT !.scrolled = TRUE]
            /\ pc' = "dep_click"
            /\ UNCHANGED result
       ELSE ReturnInTry("False", "save")
  /\ UNCHANGED <<mainVars, discVars, session, quits, visited>>

\* lines 159-161
DepClick ==
  /\ pc = "dep_click"
  /\ \E ok \in BOOLEAN :
       IF ok
       THEN /\ dep' = [dep EXCEPT !.nativeClicks = @ + 1, !.clicked = TRUE]
            /\ pc' = "dep_verify"
       ELSE /\ dep' = [dep EXCEPT !.nativeClicks = @ + 1, !.nativeThrew = TRUE]
            /\ pc' = "dep_jsclick"
  /\ UNCHANGED <<mainVars, discVars, session, quits, visited, result>>

\* a scripted click whose exception is swallowed
DepJsClick_Swallow ==
  /\ pc = "dep_jsclick"
  /\ \E ok \in BOOLEAN :
       /\ dep' = [dep EXCEPT !.scriptClicks = @ + 1, !.clicked = ok, !.scriptThrew = ~ok]
       /\ pc' = "dep_verify"
  /\ UNCHANGED <<mainVars, discVars, session, quits, visited, result>>

\* lines 161-165, 179-181
DepJsClick ==
  /\ pc = "dep_jsclick"
  /\ \E ok \in BOOLEAN :
       IF ok
       THEN /\ dep' = [dep EXCEPT !.scriptClicks = @ + 1, !.clicked = TRUE]
            /\ pc' = "dep_verify"
            /\ UNCHANGED result
       ELSE /\ dep' = [dep EXCEPT !.scriptClicks = @ + 1, !.scriptThrew = TRUE,
                                  !.caught = "save"]
            /\ result' = "False"
            /\ pc' = "dep_finally"
  /\ UNCHANGED <<mainVars, discVars, session, quits, visited>>

\* lines 166-177: the dump of the visible buttons, whose lookups may raise
DepDump ==
  /\ pc = "dep_dump"
  /\ \E ok \in BOOLEAN : ReturnInTry("False", IF ok THEN "none" ELSE "save")
  /\ UNCHANGED <<mainVars, discVars, session, quits, visited>>

(***************************************************************************)
(* The error check (lines 183-215).                                        *)
(***************************************************************************)
\* warning banners: text, displayed
WarnBanner == [text |-> "Line 4: expecting '}'", visible |-> TRUE]
EmptyBanner == [text |-> "", visible |-> TRUE]
HiddenBanner == [text |-> "Old warning", visible |-> FALSE]
Banners == {WarnBanner, EmptyBanner, HiddenBanner}

\* lines of page text
PageLines == {"Saved", "syntax error @ line 4", "Unexpected Token @ 3",
              "  expecting '}' found EOF", "mail admin@hub"}

RECURSIVE JoinLines(_)
JoinLines(ls) ==
  IF ls = <<>> THEN ""
  ELSE IF Len(ls) = 1 THEN ls[1]
  ELSE ls[1] \o "\n" \o JoinLines(Tail(ls))

\* the pages of the verification step: all of them, and those of a whole run
AllBodies == {JoinLines(ls) : ls \in SeqsUpTo(PageLines, MaxLines)}
AllBanners == SeqsUpTo(Banners, MaxBanners)
RunBodies == {"Saved", "syntax error @ line 4"}
RunBanners == {<<>>, <<WarnBanner>>}

\* line 198
keywords == <<"expecting", "syntax error", "unexpected token", "compilation error">>

\* lines 190-192
RECURSIVE BannerErrors(_, _)
BannerErrors(bs, i) ==
  IF i > Len(bs) THEN <<>>
  ELSE (IF bs[i].visible THEN <<"Banner: " \o bs[i].text>> ELSE <<>>)
       \o BannerErrors(bs, i + 1)

\* lines 203-205
RECURSIVE LinesWith(_, _, _)
LinesWith(lines, k, i) ==
  IF i > Len(lines) THEN <<>>
  ELSE (IF Contains(lines[i], k) THEN <<Strip(lines[i])>> ELSE <<>>)
       \o LinesWith(lines, k, i + 1)

\* a keyword test without the " @" part
KeywordHit_NoMarker(body_text, k) == Contains(body_text, k)

\* line 200
KeywordHit(body_text, k) == Contains(body_text, k) /\ Contains(body_text, k \o " @")

\* lines 199-205, from the n-th keyword on
RECURSIVE KeywordErrors(_, _)
KeywordErrors(body_text, n) ==
  IF n > Len(keywords) THEN <<>>
  ELSE (IF KeywordHit(body_text, keywords[n])
        THEN LinesWith(SplitLines(body_text), keywords[n], 1)
        ELSE <<>>)
       \o KeywordErrors(body_text, n + 1)

\* lines 185-206: a raising lookup leaves its part of the list empty
ErrorsFound(bs, body, bannerRaised, bodyRaised) ==
  (IF bannerRaised THEN <<>> ELSE BannerErrors(bs, 1))
  \o (IF bodyRaised THEN <<>> ELSE KeywordErrors(Lower(body), 1))

\* lines 183-215
DepVerify(Bodies, BannerLists) ==
  /\ pc = "dep_verify"
  /\ \E body \in Bodies, bs \in BannerLists, bannerRaised \in BOOLEAN, bodyRaised \in BOOLEAN :
       LET errs == ErrorsFound(bs, body, bannerRaised, bodyRaised) IN
       /\ dep' = [dep EXCEPT !.verified = TRUE, !.banners = bs, !.body = body,
                             !.bannerRaised = bannerRaised, !.bodyRaised = bodyRaised,
                             !.errors_found = errs]
       /\ result' = IF errs # <<>> THEN "False" ELSE "True"
  /\ pc' = "dep_finally"
  /\ UNCHANGED <<mainVars, discVars, session, quits, visited>>

\* lines 220-221
DepFinally ==
  /\ pc = "dep_finally"
  /\ session' = [session EXCEPT !.dep = "closed"]
  /\ quits' = [quits EXCEPT !.dep = @ + 1]
  /\ pc' = "returned"
  /\ UNCHANGED <<mainVars, discVars, visited, result, dep>>

\* an exit whose status follows what deploy_driver returned
MainExit_StatusFromResult ==
  /\ pc = "returned"
  /\ exitStatus' = IF result = "True" THEN 0 ELSE 1
  /\ pc' = "exited"
  /\ UNCHANGED <<argv, driver_id, hub_ip, HUB_IP, fileExists, discVars, session,
                 quits, visited, result, dep>>

\* line 311: the value deploy_driver returned is dropped and the script ends
MainExit ==
  /\ pc = "returned"
  /\ exitStatus' = 0
  /\ pc' = "exited"
  /\ UNCHANGED <<argv, driver_id, hub_ip, HUB_IP, fileExists, discVars, session,
                 quits, visited, result, dep>>

(***************************************************************************)
(* Specifications.                                                         *)
(***************************************************************************)
\* a whole run of the script
Next ==
  \/ ParseArgs
  \/ DiscSkip \/ DiscLaunch \/ DiscGet \/ DiscFind \/ DiscLink \/ DiscQuit
  \/ Check
  \/ DepFile \/ DepLaunch \/ DepGet \/ DepLogin \/ DepWait \/ DepInject
  \/ DepFindSave(RunPages, RunRaises)
  \/ DepScroll \/ DepClick \/ DepJsClick \/ DepDump
  \/ DepVerify(RunBodies, RunBanners)
  \/ DepFinally
  \/ MainExit

Spec == Init /\ [][Next]_vars

\* the argument parsing alone, over every command line within the bounds
InitArgs ==
  /\ InitCommon
  /\ argv \in SeqsUpTo(Tokens, MaxArgs)
  /\ fileExists = TRUE

SpecArgs == InitArgs /\ [][ParseArgs]_vars

\* deploy_driver at the save step, reached with the identifier given on the command line
InitAtSave ==
  /\ pc = "dep_find"
  /\ argv = <<"42">>
  /\ driver_id = "42"
  /\ hub_ip = DEFAULT_HUB_IP
  /\ HUB_IP = DEFAULT_HUB_IP
  /\ fileExists = TRUE
  /\ session = [disc |-> "none", dep |-> "open"]
  /\ quits = [disc |-> 0, dep |-> 0]
  /\ visited = <<"http://192.168.2.19/driver/editor/42">>
  /\ listing = <<>>
  /\ link = 0
  /\ discOutcome = "none"
  /\ exitStatus = -1
  /\ result = "none"
  /\ dep = [DepInit EXCEPT !.editorFound = TRUE, !.buffer = "driver_code",
                           !.injectOk = TRUE]

\* the save-control selection alone, over every page within the bounds
SpecSave == InitAtSave /\ [][DepFindSave(AllPages, AllRaises)]_vars

\* deploy_driver at the error check, reached after the native click of a "Save" button
InitAtVerify ==
  /\ pc = "dep_verify"
  /\ argv = <<"42">>
  /\ driver_id = "42"
  /\ hub_ip = DEFAULT_HUB_IP
  /\ HUB_IP = DEFAULT_HUB_IP
  /\ fileExists = TRUE
  /\ session = [disc |-> "none", dep |-> "open"]
  /\ quits = [disc |-> 0, dep |-> 0]
  /\ visited = <<"http://192.168.2.19/driver/editor/42">>
  /\ listing = <<>>
  /\ link = 0
  /\ discOutcome = "none"
  /\ exitStatus = -1
  /\ result = "none"
  /\ dep = [DepInit EXCEPT !.editorFound = TRUE, !.buffer = "driver_code",
                           !.injectOk = TRUE, !.searched = TRUE, !.page = <<SaveBtn>>,
                           !.save_btn = 1, !.found_using = 1, !.scrolled = TRUE,
                           !.nativeClicks = 1, !.clicked = TRUE]

\* the error check alone, over every page within the bounds
NextVerify == DepVerify(AllBodies, AllBanners) \/ DepFinally

SpecVerify == InitAtVerify /\ [][NextVerify]_vars

(***************************************************************************)
(* Properties.                                                             *)
(***************************************************************************)
Sessions == {"disc", "dep"}

\* C1: every browser session the run launched has been quit exactly once when
\* the process exits, on every exit path of deploy_driver and of discovery.
C1_EverySessionQuitOnceAtExit ==
  pc = "exited" => \A s \in Sessions : session[s] # "none" => quits[s] = 1

\* C2: at most one browser session is open in every state of a run; the
\* discovery session is not open while deploy_driver runs.
C2_AtMostOneSessionOpen ==
  /\ ~(session.disc = "open" /\ session.dep = "open")
  /\ session.dep # "none" => session.disc # "open"

\* C2 witness: deploy_driver holds its session after a discovery that had one.
C2_Witness == session.dep = "open" /\ session.disc = "closed"

\* C3: when the local source file is absent no browser session is launched
\* and no page is navigated, whether or not the identifier was configured.
C3_NoBrowserWhenFileAbsent ==
  ~fileExists => (\A s \in Sessions : session[s] = "none") /\ visited = <<>>

\* what the locator is said to accept: visible, enabled, no negative label
Qualifies(e) ==
  /\ e.visible
  /\ e.enabled
  /\ ~Contains(Lower(e.text), "delete")
  /\ ~Contains(Lower(e.text), "cancel")

\* the qualifying matches as <<expression position, position in the page>>, over
\* the expressions whose lookup returned
Candidates(page, raised) ==
  {c \in ((1..NumSelectors) \ raised) \X (1..Len(page)) :
     selectors(c[1], page[c[2]]) /\ Qualifies(page[c[2]])}

Precedes(c, d) == c[1] < d[1] \/ (c[1] = d[1] /\ c[2] <= d[2])

\* C4: the save control chosen is the first match, by expression position and
\* then match position, that is visible, enabled and carries no negative label;
\* none is chosen exactly when there is no such match; a hidden, disabled or
\* negative element is never chosen.
C4_SaveControlIsFirstQualifying ==
  dep.searched =>
    LET C == Candidates(dep.page, dep.findRaised) IN
    /\ C = {} <=> dep.save_btn = 0
    /\ C # {} => \E c \in C :
                   /\ \A d \in C : Precedes(c, d)
                   /\ dep.found_using = c[1]
                   /\ dep.save_btn = c[2]
    /\ dep.save_btn # 0 => Qualifies(dep.page[dep.save_btn])

\* C4 witness: a visible negative match precedes the chosen control among the
\* matches of the same expression.
C4_Witness ==
  /\ dep.searched
  /\ dep.save_btn = 2
  /\ dep.found_using = 1
  /\ selectors(1, dep.page[1])
  /\ dep.page[1].visible /\ dep.page[1].enabled
  /\ Contains(Lower(dep.page[1].text), "cancel")

\* a visible warning banner was found
BannerFound ==
  ~dep.bannerRaised /\ \E i \in 1..Len(dep.banners) : dep.banners[i].visible

\* keyword k, followed by " @", occurs in the lower-cased page text that was read
MarkedKeyword(k) == ~dep.bodyRaised /\ Contains(Lower(dep.body), k \o " @")

KeywordSet == {keywords[n] : n \in 1..Len(keywords)}

\* C5: once the error check has run, deploy_driver returns True if and only if
\* no visible banner and no keyword followed by " @" was found, and False with
\* a non-empty diagnostic list otherwise; each diagnostic is a banner text or a
\* line holding such a keyword.
C5_SuccessIffNothingFound ==
  (dep.verified /\ pc = "returned") =>
    /\ result \in {"True", "False"}
    /\ result = "True" <=> (~BannerFound /\ \A k \in KeywordSet : ~MarkedKeyword(k))
    /\ result = "False" <=> dep.errors_found # <<>>
    /\ (~dep.bodyRaised /\ Contains(dep.body, "syntax error @ line 4"))
         => (result = "False" /\ dep.errors_found # <<>>)
    /\ (~BannerFound /\ \A k \in KeywordSet : ~Contains(Lower(dep.body), k))
         => result = "True"
    /\ \A i \in 1..Len(dep.errors_found) :
         \/ SubSeq(dep.errors_found[i], 1, 8) = "Banner: "
         \/ \E k \in KeywordSet : MarkedKeyword(k) /\ Contains(dep.errors_found[i], k)

\* C5 witness: the page text "syntax error @ line 4" and no banner gave failure.
C5_Witness ==
  /\ pc = "returned"
  /\ dep.verified
  /\ dep.banners = <<>>
  /\ dep.body = "syntax error @ line 4"
  /\ ~dep.bodyRaised
  /\ result = "False"

\* C6 as stated: once a save control was accepted, the native click is invoked
\* exactly once and the scripted click exactly once if and only if the native
\* click threw; if the scripted click throws too the run returns False without
\* the error check.
C6_AcceptedControlClickedOnce ==
  (pc = "returned" /\ dep.save_btn # 0) =>
    /\ dep.nativeClicks = 1
    /\ dep.scriptClicks <= 1
    /\ dep.scriptClicks = 1 <=> dep.nativeThrew
    /\ dep.scriptThrew => (result = "False" /\ ~dep.verified)

\* C6 amended: no click is ever repeated; once a save control was accepted and
\* scrolled into view, the native click is invoked exactly once and the
\* scripted click exactly once if and only if the native click threw; if the
\* scroll script throws no click is invoked and the run returns False; if the
\* scripted click throws too the run returns False without the error check.
C6_ClickedOnceAfterScroll ==
  /\ dep.nativeClicks <= 1
  /\ dep.scriptClicks <= 1
  /\ dep.scriptThrew => (result = "False" /\ ~dep.verified)
  /\ (pc = "returned" /\ dep.save_btn # 0) =>
       /\ dep.scrolled => (dep.nativeClicks = 1 /\ (dep.scriptClicks = 1 <=> dep.nativeThrew))
       /\ ~dep.scrolled => /\ dep.nativeClicks = 0
                           /\ dep.scriptClicks = 0
                           /\ result = "False"
                           /\ ~dep.verified

\* C6 witness: the native click threw, the scripted click threw too.
C6_Witness ==
  /\ pc = "returned"
  /\ dep.nativeThrew
  /\ dep.scriptThrew
  /\ dep.nativeClicks = 1
  /\ dep.scriptClicks = 1

\* the positions of argv that are consulted
Consulted == 1..(IF Len(argv) < 2 THEN Len(argv) ELSE 2)

IdPositions == {i \in Consulted : IsDigit(argv[i])}
IpPositions == {i \in Consulted : ~IsDigit(argv[i]) /\ Contains(argv[i], ".")}
Latest(S) == CHOOSE i \in S : \A j \in S : j <= i

\* C7: after parsing, the identifier is the last all-digit token among the
\* first two arguments (the placeholder if none) and the address is the last
\* token among them that is not all-digit and contains "." (the default if
\* none); a third argument changes neither.
C7_ArgumentClassification ==
  pc # "start" =>
    /\ driver_id = IF IdPositions = {} THEN DRIVER_ID ELSE argv[Latest(IdPositions)]
    /\ hub_ip = IF IpPositions = {} THEN DEFAULT_HUB_IP ELSE argv[Latest(IpPositions)]
    /\ argv = <<"42">> => (driver_id = "42" /\ hub_ip = DEFAULT_HUB_IP)
    /\ argv = <<"192.168.1.5">> => (driver_id = DRIVER_ID /\ hub_ip = "192.168.1.5")
    /\ argv = <<"7", "10.0.0.2">> => (driver_id = "7" /\ hub_ip = "10.0.0.2")

\* C7 witness: an all-digit third argument was left unused.
C7_Witness ==
  /\ pc = "discover"
  /\ Len(argv) = 3
  /\ IsDigit(argv[3])
  /\ driver_id = DRIVER_ID

DeployPcs == {"dep_file", "dep_launch", "dep_get", "dep_login", "dep_wait", "dep_inject",
              "dep_find", "dep_scroll", "dep_click", "dep_jsclick", "dep_dump",
              "dep_verify", "dep_finally", "returned"}

EditorVisited == \E i \in 1..Len(visited) : Contains(visited[i], "/driver/editor/")

\* C9: discovery runs only when no consulted argument gave an identifier;
\* deploy_driver never runs with the placeholder; when discovery found no
\* link, found a link without "editor/" or raised, the identifier stays the
\* placeholder and the run ends with no deployment session and no editor URL.
C9_NoDeployWithoutIdentifier ==
  /\ (session.disc # "none" \/ discOutcome # "none") => IdPositions = {}
  /\ (pc \in DeployPcs \/ session.dep # "none" \/ result # "none") => driver_id # DRIVER_ID
  /\ discOutcome \in {"nolink", "badhref", "raised"} =>
       /\ driver_id = DRIVER_ID
       /\ pc \in {"disc_quit", "check", "exited"}
       /\ session.dep = "none"
       /\ ~EditorVisited
       /\ pc = "exited" => exitStatus = 1

\* C9 witness: discovery raised and the run ended.
C9_Witness == discOutcome = "raised" /\ pc = "exited" /\ session.disc = "open"

\* the ordering of the pipeline
PipelineOrdered ==
  /\ dep.buffer = "driver_code" => dep.editorFound
  /\ dep.searched => dep.injectOk
  /\ (dep.nativeClicks > 0 \/ dep.scriptClicks > 0) => (dep.searched /\ dep.save_btn # 0)
  /\ dep.verified => dep.clicked
  /\ result = "True" =>
       /\ dep.editorFound /\ dep.injectOk /\ dep.clicked /\ dep.verified
       /\ dep.errors_found = <<>>

\* an exception was raised between the editor wait and the error check
RaisedInBetween ==
  dep.findRaised # {} \/ dep.nativeThrew \/ dep.scriptThrew \/ dep.caught # "none"

\* C10 as stated: the pipeline is ordered, and any exception raised in between
\* yields False, never True.
C10_AnyExceptionYieldsFalse ==
  /\ PipelineOrdered
  /\ (RaisedInBetween /\ result # "none") => result = "False"

\* C10 amended: the pipeline is ordered, and any exception that reaches the
\* handler of the save step (line 179) or the top-level handler (line 217)
\* yields False, never True; an exception absorbed where it is raised (a
\* selector lookup, the native click) leaves the run going.
C10_OrderedAndCaughtYieldsFalse ==
  /\ PipelineOrdered
  /\ dep.caught # "none" => result = "False"
  /\ result = "True" => dep.caught = "none"

\* C10 witness: a run returned True after the native click threw.
C10_Witness == pc = "returned" /\ result = "True" /\ dep.nativeThrew
====
